---- MODULE Spec2Model ----
(***************************************************************************)
(* State-machine model of the hostel feedback caller:                      *)
(*   - the FeedbackSession row (db/models.py) of one session,              *)
(*   - CallHandler.handle_feedback_call (the call-placement task),         *)
(*   - twilio_status_callback (app.py),                                    *)
(*   - the media relay, CallHandler.handle_media_stream, with its two      *)
(*     coroutines twilio_to_openai and openai_to_twilio, run by            *)
(*     asyncio.gather on one event loop, and the finalization after it.    *)
(*                                                                         *)
(* asyncio is cooperative: a coroutine runs without interruption between   *)
(* two awaits, so an action is the code between two suspension points.     *)
(* An optional (nullable) value is None == <<>> or Some(v) == <<v>>.       *)
(***************************************************************************)
EXTENDS Integers, Sequences, FiniteSets, TLC

\* ------------------------------------------------------------- bounds
\* Messages the outside delivers in one run: status callbacks, telephony
\* stream messages and AI stream messages together.
MaxEvents == 4

\* -------------------------------------------------- program constants
\* asyncio.sleep(5) before the AI connection is closed.
GraceSecs == 5
\* self.max_duration_in_secs = 300
max_duration_in_secs == 300

None == <<>>
Some(v) == <<v>>

\* SessionStatus (db/models.py)
PENDING == "pending"
IN_PROGRESS == "in_progress"
COMPLETED == "completed"
FAILED == "failed"
SessionStatus == {PENDING, IN_PROGRESS, COMPLETED, FAILED}
Terminal == {COMPLETED, FAILED}

\* CallStatus values of the status callback; "ringing" stands for the
\* values the handler ignores (queued, ringing, in-progress).
CallStatuses == {"completed", "failed", "busy", "no-answer", "ringing"}
\* CallDuration form values: a number of seconds as text; the form default "0".
CallDurations == {"0", "42"}
\* The form of a request: a completed call reports its duration, the other
\* requests carry none and form_data.get("CallDuration", "0") gives "0".
CallbackRequests ==
    {[call_status |-> "completed", call_duration |-> d] : d \in CallDurations}
    \cup {[call_status |-> s, call_duration |-> "0"] : s \in CallStatuses \ {"completed"}}

\* int(text) on the decimal texts the model uses
ParseInt(s) == CASE s = "0" -> 0
                 [] s = "42" -> 42
                 [] s = "3000" -> 3000
                 [] s = "5000" -> 5000

VARIABLES
    db,          \* the FeedbackSession row
    fcPc,        \* handle_feedback_call: position of the background task
    cb,          \* twilio_status_callback: the last request handled
    failReported,\* a failed/busy/no-answer callback has been handled
    events       \* messages delivered so far: callbacks, telephony, AI

VARIABLES
    relayPc,     \* CallHandler.handle_media_stream: "idle", "running",
                 \* "summarize", "persist", "done" (committed, returned),
                 \* "done_rollback" (commit failed, returned), "aborted" (raised)
    aiConn,      \* openai_ws: "none", "OPEN", or closed: "closed_out" by
                 \* openai_to_twilio, "closed_in" by twilio_to_openai,
                 \* "closed_handler" by the handler, "closed_peer" by the endpoint
    twConn,      \* websocket: "open", "peer_gone", "closed"
    inPc,        \* twilio_to_openai: "idle", "run", "append_sent", "done",
                 \* "raised"
    outPc,       \* openai_to_twilio: "idle", "run", "delta_sent", "sleep", "done"
    rs,          \* the closure variables shared by the two coroutines
    transcript,  \* transcript list of the handler
    summary,     \* summary local of the handler
    trEvents,    \* history: the transcript events processed that carried text
    trCount,     \* history: transcript events processed
    aiCount,     \* history: AI stream messages processed, of any type
    ackSent,     \* call ids of the function_call_output items sent, in order
    deltaItem,   \* item_id of the audio delta being sent to Twilio
    graceElapsed,\* seconds slept in asyncio.sleep(5)
    maxReached,  \* max_duration_in_secs have passed since the relay started
    interrupted, \* history: item_id of the response in flight when a
                 \* speech_started event arrived, until the interruption
                 \* handler has run
    truncSent,   \* messages handle_speech_started_event has sent
    configSent,  \* session.update messages sent on openai_ws
    appendMsg,   \* the input_audio_buffer.append being sent on openai_ws
    mediaMsg     \* the media event being sent to Twilio

storeVars == <<db, fcPc, cb, failReported>>
connVars == <<aiConn, twConn>>
loopVars == <<inPc, outPc>>
talkVars == <<transcript, trEvents, trCount>>
auxVars == <<summary, ackSent, deltaItem, graceElapsed, maxReached>>
speechVars == <<interrupted, truncSent>>
sendVars == <<configSent, appendMsg, mediaMsg>>
relayVars == <<relayPc, aiConn, twConn, inPc, outPc, rs, transcript, trEvents,
               trCount, aiCount, summary, ackSent, deltaItem, graceElapsed,
               maxReached, interrupted, truncSent, configSent, appendMsg,
               mediaMsg>>
vars == <<db, fcPc, cb, failReported, events,
          relayPc, aiConn, twConn, inPc, outPc, rs, transcript, trEvents,
          trCount, aiCount, summary, ackSent, deltaItem, graceElapsed,
          maxReached, interrupted, truncSent, configSent, appendMsg,
          mediaMsg>>

\* FeedbackSession as initiate_feedback_call creates it (app.py)
NewSession ==
    [status |-> PENDING, call_sid |-> None, duration_seconds |-> None,
     transcript |-> None, summary |-> None, completed_at |-> None]

\* The unit of work flushes a column only when the value set differs from
\* the value loaded: an assignment of the loaded value writes nothing.
Flush(row, loaded, column, value) ==
    IF value = loaded[column] THEN row ELSE [row EXCEPT ![column] = value]

\* ------------------------------------------------ handle_feedback_call
\* require_env("BASE_URL") succeeds; status = IN_PROGRESS; commit.
FcBegin ==
    /\ fcPc = "start"
    /\ db' = Flush(db, db, "status", IN_PROGRESS)
    /\ fcPc' = "in_progress"
    /\ UNCHANGED <<cb, failReported, events>>
    /\ UNCHANGED relayVars

\* require_env("BASE_URL") raises: the except branch marks the session FAILED.
FcNoBaseUrl ==
    /\ fcPc = "start"
    /\ db' = Flush(db, db, "status", FAILED)
    /\ fcPc' = "failed"
    /\ UNCHANGED <<cb, failReported, events>>
    /\ UNCHANGED relayVars

\* twilio_client.calls.create(...) returns the call.
FcPlace ==
    /\ fcPc = "in_progress"
    /\ fcPc' = "placed"
    /\ UNCHANGED <<db, cb, failReported, events>>
    /\ UNCHANGED relayVars

\* A failed placement that leaves the status as it is.
FcPlaceFailsUnmarked ==
    /\ fcPc = "in_progress"
    /\ fcPc' = "failed"
    /\ UNCHANGED <<db, cb, failReported, events>>
    /\ UNCHANGED relayVars

\* twilio_client.calls.create(...) raises: the except branch marks FAILED.
\* The task's session object still holds the IN_PROGRESS it wrote, so the
\* assignment is a change and is flushed.
FcPlaceFails ==
    /\ fcPc = "in_progress"
    /\ db' = [db EXCEPT !.status = FAILED]
    /\ fcPc' = "failed"
    /\ UNCHANGED <<cb, failReported, events>>
    /\ UNCHANGED relayVars

\* session.call_sid = call.sid; commit.
FcStoreSid ==
    /\ fcPc = "placed"
    /\ db' = [db EXCEPT !.call_sid = Some("CA1")]
    /\ fcPc' = "done"
    /\ UNCHANGED <<cb, failReported, events>>
    /\ UNCHANGED relayVars

handle_feedback_call ==
    \/ FcBegin
    \/ FcNoBaseUrl
    \/ FcPlace
    \/ FcPlaceFails
    \/ FcStoreSid

\* The Twilio call exists once calls.create has returned.
CallPlaced == fcPc \in {"placed", "done"}

\* ---------------------------------------------- twilio_status_callback
\* A "completed" branch that assigns the status.
StatusCompletedAssigned(loaded) == COMPLETED

\* The status the "completed" branch leaves in the session object:
\* `session.status == SessionStatus.COMPLETED` is a comparison, not an assignment.
StatusOnCompleted(loaded) == loaded

\* A callback that also follows the call's progress: a ringing or in-progress
\* call sets the status IN_PROGRESS.
CbRowTracksProgress(row, loaded, call_status, call_duration) ==
    IF call_status = "ringing"
    THEN Flush(row, loaded, "status", IN_PROGRESS)
    ELSE IF call_status \in {"failed", "busy", "no-answer"}
         THEN Flush(row, loaded, "status", FAILED)
         ELSE row

\* CbRow without the failed/busy/no-answer branch.
CbRowIgnoringFailure(row, loaded, call_status, call_duration) ==
    IF call_status = "completed" /\ loaded.status = IN_PROGRESS
    THEN Flush(row, loaded, "duration_seconds", Some(ParseInt(call_duration)))
    ELSE row

\* The row after the branch on call_status and the commit; loaded is the row
\* the select returned, call_duration the CallDuration form field.
CbRow(row, loaded, call_status, call_duration) ==
    IF call_status = "completed"
    THEN IF loaded.status = IN_PROGRESS
         THEN Flush(Flush(row, loaded, "status", StatusOnCompleted(loaded.status)),
                    loaded, "duration_seconds", Some(ParseInt(call_duration)))
         ELSE row
    ELSE IF call_status \in {"failed", "busy", "no-answer"}
         THEN Flush(row, loaded, "status", FAILED)
         ELSE row

\* One status callback, from the form to the commit. cb keeps the request,
\* the status of the row the select returned, and the request's number.
twilio_status_callback ==
    /\ CallPlaced
    /\ events < MaxEvents
    /\ \E r \in CallbackRequests :
          /\ cb' = [call_status |-> r.call_status, call_duration |-> r.call_duration,
                    loaded_status |-> db.status, seq |-> cb.seq + 1]
          /\ db' = CbRow(db, db, r.call_status, r.call_duration)
          /\ failReported' = (failReported \/ r.call_status \in {"failed", "busy", "no-answer"})
    /\ events' = events + 1
    /\ UNCHANGED fcPc
    /\ UNCHANGED relayVars

NoCallback == [call_status |-> "none", call_duration |-> "0",
               loaded_status |-> PENDING, seq |-> 0]

\* ===================================================== the media relay
\* Closure variables of CallHandler.handle_media_stream.
NewRelayState ==
    [stream_sid |-> None, latest_media_timestamp |-> 0,
     last_assistant_item |-> None, mark_queue |-> <<>>,
     response_start_timestamp_twilio |-> None,
     conversation_ended |-> FALSE, end_call |-> FALSE]

\* Telephony stream messages. "undecodable" is text json.loads rejects;
\* "media_bad" is a media event whose media.timestamp is missing or no integer.
StreamSids == {"ST1"}
MediaTimestamps == {"3000", "5000"}
\* media.payload of the packet with the given media.timestamp
MediaPayload(t) == IF t = "3000" THEN "f39/" ELSE "/w=="
TwilioEvents ==
    {[event |-> "start", streamSid |-> s, timestamp |-> "0", payload |-> ""] :
        s \in StreamSids}
    \cup {[event |-> "media", streamSid |-> "ST1", timestamp |-> t,
           payload |-> MediaPayload(t)] : t \in MediaTimestamps}
    \cup {[event |-> k, streamSid |-> "ST1", timestamp |-> "0", payload |-> ""] :
             k \in {"mark", "stop", "undecodable", "media_bad"}}

\* ---------------------------------------------------- twilio_to_openai
\* The body of `async for message in websocket.iter_text()` for one message:
\* TRUE when it raises (json.loads, data["media"]["timestamp"], int(...)).
InboundRaises(r, e, ai) ==
    /\ ~r.end_call
    /\ \/ e.event = "undecodable"
       \/ e.event = "media_bad" /\ ai = "OPEN"

\* A start branch that leaves last_assistant_item as it is.
InboundStateKeepsItem(r, e, ai) ==
    IF r.end_call THEN r
    ELSE IF e.event = "start"
    THEN [r EXCEPT !.stream_sid = Some(e.streamSid),
                   !.response_start_timestamp_twilio = None,
                   !.latest_media_timestamp = 0]
    ELSE IF e.event = "media" /\ ai = "OPEN"
    THEN [r EXCEPT !.latest_media_timestamp = ParseInt(e.timestamp)]
    ELSE IF e.event = "mark" /\ r.mark_queue # <<>>
    THEN [r EXCEPT !.mark_queue = Tail(r.mark_queue)]
    ELSE r

\* The closure variables after the body has handled message e.
InboundState(r, e, ai) ==
    IF r.end_call THEN r
    ELSE IF e.event = "start"
    THEN [r EXCEPT !.stream_sid = Some(e.streamSid),
                   !.response_start_timestamp_twilio = None,
                   !.latest_media_timestamp = 0,
                   !.last_assistant_item = None]
    ELSE IF e.event = "media" /\ ai = "OPEN"
    THEN [r EXCEPT !.latest_media_timestamp = ParseInt(e.timestamp)]
    ELSE IF e.event = "mark" /\ r.mark_queue # <<>>
    THEN [r EXCEPT !.mark_queue = Tail(r.mark_queue)]
    ELSE r

\* The message the body sends on openai_ws for message e, None for none:
\* a media event is passed on as input_audio_buffer.append with the payload
\* as received, under the test openai_ws.state.name == "OPEN".
InboundSends(r, e, ai) ==
    IF ~r.end_call /\ e.event = "media" /\ ai = "OPEN"
    THEN Some([type |-> "input_audio_buffer.append", audio |-> e.payload])
    ELSE None

\* An inbound loop that closes an open AI connection whenever it ends.
AiClosedOnInboundExit(ai) == IF ai = "OPEN" THEN "closed_in" ELSE ai

\* The AI connection after the loop has ended by `break` or by the end of
\* iter_text(): iter_text() returns on a disconnect (it catches
\* WebSocketDisconnect itself), so the `except WebSocketDisconnect` branch
\* that closes openai_ws is not entered and the connection is left as it is.
AiAfterInboundExit(ai) == ai


\* One message received and handled. With end_call set the loop breaks
\* before it looks at the message.
InReceiveOf(e) ==
    /\ inPc = "run"
    /\ twConn = "open"
    /\ events < MaxEvents
    /\ rs' = InboundState(rs, e, aiConn)
    /\ appendMsg' = IF InboundRaises(rs, e, aiConn) THEN None
                    ELSE InboundSends(rs, e, aiConn)
    /\ inPc' = IF rs.end_call THEN "done"
               ELSE IF InboundRaises(rs, e, aiConn) THEN "raised"
               ELSE IF InboundSends(rs, e, aiConn) # None THEN "append_sent"
               ELSE "run"
    /\ aiConn' = IF rs.end_call THEN AiAfterInboundExit(aiConn) ELSE aiConn
    /\ events' = events + 1
    /\ UNCHANGED <<relayPc, twConn, outPc, aiCount, configSent, mediaMsg>>
    /\ UNCHANGED <<storeVars, talkVars, auxVars>>
    /\ UNCHANGED speechVars

InReceive == \E e \in TwilioEvents : InReceiveOf(e)

\* `await openai_ws.send(...)` of the append has returned: the loop is back
\* at iter_text().
InAppendSent ==
    /\ inPc = "append_sent"
    /\ inPc' = "run"
    /\ appendMsg' = None
    /\ UNCHANGED <<relayPc, outPc, rs, aiCount, events, configSent, mediaMsg>>
    /\ UNCHANGED <<storeVars, connVars, talkVars, auxVars>>
    /\ UNCHANGED speechVars

\* The caller hangs up: Twilio closes the media stream.
TwilioDisconnects ==
    /\ relayPc = "running"
    /\ twConn = "open"
    /\ twConn' = "peer_gone"
    /\ UNCHANGED <<relayPc, aiConn, rs, aiCount, events>>
    /\ UNCHANGED <<storeVars, loopVars, talkVars, auxVars>>
    /\ UNCHANGED speechVars
    /\ UNCHANGED sendVars

\* iter_text() ends: the loop is over.
InSeeDisconnect ==
    /\ inPc = "run"
    /\ twConn = "peer_gone"
    /\ inPc' = "done"
    /\ aiConn' = AiAfterInboundExit(aiConn)
    /\ UNCHANGED <<relayPc, twConn, outPc, rs, aiCount, events>>
    /\ UNCHANGED <<storeVars, talkVars, auxVars>>
    /\ UNCHANGED speechVars
    /\ UNCHANGED sendVars

twilio_to_openai ==
    \/ InReceive
    \/ InAppendSent
    \/ InSeeDisconnect

\* ---------------------------------------------------- openai_to_twilio
\* An append that does not look at the text.
AppendEntryAlways(tr, role, text) == Append(tr, [role |-> role, content |-> text])

\* transcript.append({...}) under `if user_transcript:` / `if agent_transcript:`
AppendEntry(tr, role, text) ==
    IF text # "" THEN Append(tr, [role |-> role, content |-> text]) ELSE tr

Roles == {"user", "agent"}
Texts == {"", "a"}
ItemIds == {"item1"}
\* response['delta'] values: canonical base64, base64 with a character
\* outside the alphabet, and text that is no base64.
AudioDeltas == {"QUJD", "QU JD", "QUJ"}

\* base64.b64decode(s): characters outside the alphabet are discarded
\* (validate is off); None when it raises binascii.Error.
B64Decode(s) ==
    CASE s = "QUJD" -> Some("ABC")
      [] s = "QU JD" -> Some("ABC")
      [] OTHER -> None

\* base64.b64encode(b).decode('utf-8')
B64Encode(b) ==
    CASE b = "ABC" -> "QUJD"
      [] OTHER -> ""

\* A media event that carries the delta as it was received.
MediaEventVerbatim(r, delta) ==
    [event |-> "media", streamSid |-> r.stream_sid, payload |-> delta]

\* audio_delta: the payload decoded and encoded again, under the current
\* stream_sid.
MediaEvent(r, delta) ==
    [event |-> "media", streamSid |-> r.stream_sid,
     payload |-> B64Encode(B64Decode(delta)[1])]
FunctionNames == {"end_conversation", "lookup"}
\* call_id values; the endpoint gives every function call an id of its own,
\* here the number of the call among those acknowledged so far.
CallIds == 1..MaxEvents

\* The loop is at `async for message in openai_ws`, the connection is open
\* and a message arrives.
OutCanReceive ==
    /\ outPc = "run"
    /\ aiConn = "OPEN"
    /\ events < MaxEvents

\* conversation.item.input_audio_transcription.completed (role user) or
\* response.output_audio_transcript.done (role agent)
OutTranscript ==
    /\ OutCanReceive
    /\ \E role \in Roles, text \in Texts :
          /\ transcript' = AppendEntry(transcript, role, text)
          /\ trEvents' = IF text = "" THEN trEvents
                         ELSE trEvents \o <<[role |-> role, content |-> text]>>
    /\ trCount' = trCount + 1
    /\ aiCount' = aiCount + 1
    /\ events' = events + 1
    /\ UNCHANGED <<relayPc, rs>>
    /\ UNCHANGED <<storeVars, connVars, loopVars, auxVars>>
    /\ UNCHANGED speechVars
    /\ UNCHANGED sendVars

\* A handler that acknowledges the call of any function.
OutFunctionCallAnyTool(name, call_id) ==
    /\ OutCanReceive
    /\ rs' = [rs EXCEPT !.conversation_ended = TRUE]
    /\ ackSent' = Append(ackSent, call_id)
    /\ aiCount' = aiCount + 1
    /\ events' = events + 1
    /\ UNCHANGED <<relayPc, summary, deltaItem, graceElapsed, maxReached>>
    /\ UNCHANGED <<storeVars, connVars, loopVars, talkVars>>
    /\ UNCHANGED speechVars
    /\ UNCHANGED sendVars

\* response.function_call_arguments.done: for end_conversation,
\* conversation_ended = True and the function_call_output item is sent.
OutFunctionCallOf(name, call_id) ==
    /\ OutCanReceive
    /\ IF name = "end_conversation"
       THEN /\ rs' = [rs EXCEPT !.conversation_ended = TRUE]
            /\ ackSent' = Append(ackSent, call_id)
       ELSE UNCHANGED <<rs, ackSent>>
    /\ aiCount' = aiCount + 1
    /\ events' = events + 1
    /\ UNCHANGED <<relayPc, summary, deltaItem, graceElapsed, maxReached>>
    /\ UNCHANGED <<storeVars, connVars, loopVars, talkVars>>
    /\ UNCHANGED speechVars
    /\ UNCHANGED sendVars

OutFunctionCall ==
    \E name \in FunctionNames, call_id \in CallIds :
        /\ call_id = Len(ackSent) + 1
        /\ OutFunctionCallOf(name, call_id)

\* A response.done that starts the termination whatever conversation_ended is.
OutResponseDoneAlways ==
    /\ OutCanReceive
    /\ rs' = [rs EXCEPT !.end_call = TRUE]
    /\ outPc' = "sleep"
    /\ graceElapsed' = 0
    /\ aiCount' = aiCount + 1
    /\ events' = events + 1
    /\ UNCHANGED <<relayPc, inPc, summary, ackSent, deltaItem, maxReached>>
    /\ UNCHANGED <<storeVars, connVars, talkVars>>
    /\ UNCHANGED speechVars
    /\ UNCHANGED sendVars

\* response.done: with conversation_ended, end_call = True and the
\* coroutine suspends in asyncio.sleep(5).
OutResponseDone ==
    /\ OutCanReceive
    /\ IF rs.conversation_ended
       THEN /\ rs' = [rs EXCEPT !.end_call = TRUE]
            /\ outPc' = "sleep"
            /\ graceElapsed' = 0
       ELSE UNCHANGED <<rs, outPc, graceElapsed>>
    /\ aiCount' = aiCount + 1
    /\ events' = events + 1
    /\ UNCHANGED <<relayPc, inPc, summary, ackSent, deltaItem, maxReached>>
    /\ UNCHANGED <<storeVars, connVars, talkVars>>
    /\ UNCHANGED speechVars
    /\ UNCHANGED sendVars

\* One second of the sleep passes.
Tick ==
    /\ outPc = "sleep"
    /\ graceElapsed < GraceSecs
    /\ graceElapsed' = graceElapsed + 1
    /\ UNCHANGED <<relayPc, rs, aiCount, events>>
    /\ UNCHANGED <<summary, ackSent, deltaItem, maxReached>>
    /\ UNCHANGED <<storeVars, connVars, loopVars, talkVars>>
    /\ UNCHANGED speechVars
    /\ UNCHANGED sendVars

\* asyncio.sleep(5) returns once 5 seconds have passed.
SleepOver(elapsed) == elapsed >= GraceSecs

\* After the sleep: close openai_ws if it is OPEN; break.
OutWake ==
    /\ outPc = "sleep"
    /\ SleepOver(graceElapsed)
    /\ aiConn' = IF aiConn = "OPEN" THEN "closed_out" ELSE aiConn
    /\ outPc' = "done"
    /\ UNCHANGED <<relayPc, twConn, inPc, rs, aiCount, events>>
    /\ UNCHANGED <<storeVars, talkVars, auxVars>>
    /\ UNCHANGED speechVars
    /\ UNCHANGED sendVars

\* response.output_audio.delta: await websocket.send_json(audio_delta).
\* With the telephony peer gone the send either raises (the loop's
\* `except Exception` ends the loop) or the frame is dropped, depending on
\* the server.
\* A delta that b64decode rejects raises before anything is sent and ends
\* the loop as well.
OutAudioDeltaOf(item, delta, sent) ==
    /\ OutCanReceive
    /\ sent \/ twConn = "peer_gone" \/ B64Decode(delta) = None
    /\ sent => B64Decode(delta) # None
    /\ outPc' = IF sent THEN "delta_sent" ELSE "done"
    /\ deltaItem' = IF sent THEN Some(item) ELSE None
    /\ mediaMsg' = IF sent THEN Some(MediaEvent(rs, delta)) ELSE None
    /\ aiCount' = aiCount + 1
    /\ events' = events + 1
    /\ UNCHANGED <<relayPc, inPc, rs, summary, ackSent, graceElapsed, maxReached>>
    /\ UNCHANGED <<configSent, appendMsg>>
    /\ UNCHANGED <<storeVars, connVars, talkVars>>
    /\ UNCHANGED speechVars

OutAudioDelta ==
    \E item \in ItemIds, delta \in AudioDeltas, sent \in BOOLEAN :
        OutAudioDeltaOf(item, delta, sent)

\* The step after the send with `await _send_mark(websocket, stream_sid)`
\* in place: with a stream_sid, a mark is sent and 'responsePart' is queued.
OutDeltaSentWithMark ==
    /\ outPc = "delta_sent"
    /\ rs' = [(IF deltaItem # rs.last_assistant_item
               THEN [rs EXCEPT !.response_start_timestamp_twilio =
                                    Some(rs.latest_media_timestamp),
                               !.last_assistant_item = deltaItem]
               ELSE rs)
              EXCEPT !.mark_queue = IF rs.stream_sid # None
                                    THEN Append(@, "responsePart") ELSE @]
    /\ deltaItem' = None
    /\ mediaMsg' = None
    /\ outPc' = "run"
    /\ UNCHANGED <<relayPc, inPc, aiCount, events, configSent, appendMsg>>
    /\ UNCHANGED <<summary, ackSent, graceElapsed, maxReached>>
    /\ UNCHANGED <<storeVars, connVars, talkVars>>
    /\ UNCHANGED speechVars

\* After the send: a new item_id starts a new response.
OutDeltaSent ==
    /\ outPc = "delta_sent"
    /\ rs' = IF deltaItem # rs.last_assistant_item
             THEN [rs EXCEPT !.response_start_timestamp_twilio =
                                  Some(rs.latest_media_timestamp),
                             !.last_assistant_item = deltaItem]
             ELSE rs
    /\ deltaItem' = None
    /\ mediaMsg' = None
    /\ outPc' = "run"
    /\ UNCHANGED <<relayPc, inPc, aiCount, events, configSent, appendMsg>>
    /\ UNCHANGED <<summary, ackSent, graceElapsed, maxReached>>
    /\ UNCHANGED <<storeVars, connVars, talkVars>>
    /\ UNCHANGED speechVars

\* input_audio_buffer.speech_started: the type is in LOG_EVENT_TYPES and is
\* logged; the branch that would call handle_speech_started_event is
\* commented out, so nothing else happens. interrupted records the response
\* that was in flight.
OutSpeechStarted ==
    /\ OutCanReceive
    /\ interrupted' = IF rs.last_assistant_item # None
                      THEN rs.last_assistant_item ELSE interrupted
    /\ aiCount' = aiCount + 1
    /\ events' = events + 1
    /\ UNCHANGED <<relayPc, rs, truncSent>>
    /\ UNCHANGED <<storeVars, connVars, loopVars, talkVars, auxVars>>
    /\ UNCHANGED sendVars

\* Any other event type (session.updated, rate_limits.updated, ...): logged
\* at most.
OutOther ==
    /\ OutCanReceive
    /\ aiCount' = aiCount + 1
    /\ events' = events + 1
    /\ UNCHANGED <<relayPc, rs>>
    /\ UNCHANGED <<storeVars, connVars, loopVars, talkVars, auxVars>>
    /\ UNCHANGED speechVars
    /\ UNCHANGED sendVars

\* json.loads(message) raises: `except Exception` logs it and the loop is over.
OutUndecodable ==
    /\ OutCanReceive
    /\ outPc' = "done"
    /\ aiCount' = aiCount + 1
    /\ events' = events + 1
    /\ UNCHANGED <<relayPc, inPc, rs>>
    /\ UNCHANGED <<storeVars, connVars, talkVars, auxVars>>
    /\ UNCHANGED speechVars
    /\ UNCHANGED sendVars

\* The AI endpoint closes the connection.
AiDisconnects ==
    /\ relayPc = "running"
    /\ aiConn = "OPEN"
    /\ aiConn' = "closed_peer"
    /\ UNCHANGED <<relayPc, twConn, rs, aiCount, events>>
    /\ UNCHANGED <<storeVars, loopVars, talkVars, auxVars>>
    /\ UNCHANGED speechVars
    /\ UNCHANGED sendVars

\* `async for message in openai_ws` ends on a closed connection.
OutSeeClosed ==
    /\ outPc = "run"
    /\ aiConn \notin {"none", "OPEN"}
    /\ outPc' = "done"
    /\ UNCHANGED <<relayPc, inPc, rs, aiCount, events>>
    /\ UNCHANGED <<storeVars, connVars, talkVars, auxVars>>
    /\ UNCHANGED speechVars
    /\ UNCHANGED sendVars

openai_to_twilio ==
    \/ OutTranscript
    \/ OutFunctionCall
    \/ OutResponseDone
    \/ Tick
    \/ OutWake
    \/ OutAudioDelta
    \/ OutDeltaSent
    \/ OutSpeechStarted
    \/ OutOther
    \/ OutUndecodable
    \/ OutSeeClosed

\* ------------------------------------------ handle_speech_started_event
\* `if mark_queue and response_start_timestamp_twilio is not None:`
SpeechGuard(r) ==
    r.mark_queue # <<>> /\ r.response_start_timestamp_twilio # None

\* A handler that truncates at the latest media timestamp instead of the
\* time played.
SpeechMessagesAbsolute(r) ==
    IF SpeechGuard(r)
    THEN <<[type |-> "conversation.item.truncate",
            item_id |-> r.last_assistant_item, stream |-> None,
            audio_end_ms |-> r.latest_media_timestamp],
           [type |-> "clear", item_id |-> None, stream |-> r.stream_sid,
            audio_end_ms |-> 0]>>
    ELSE <<>>

\* The messages the handler sends, in order: the truncate to openai_ws when
\* last_assistant_item is set, then the clear to the telephony websocket.
SpeechMessages(r) ==
    IF SpeechGuard(r)
    THEN (IF r.last_assistant_item # None
          THEN <<[type |-> "conversation.item.truncate",
                  item_id |-> r.last_assistant_item,
                  stream |-> None,
                  audio_end_ms |-> r.latest_media_timestamp
                                     - r.response_start_timestamp_twilio[1]]>>
          ELSE <<>>)
         \o <<[type |-> "clear", item_id |-> None, stream |-> r.stream_sid,
                audio_end_ms |-> 0]>>
    ELSE <<>>

\* The closure variables after the handler.
SpeechState(r) ==
    IF SpeechGuard(r)
    THEN [r EXCEPT !.mark_queue = <<>>,
                   !.last_assistant_item = None,
                   !.response_start_timestamp_twilio = None]
    ELSE r

\* One run of the handler. No statement of the program calls it: the action
\* is part of InterruptSpec only.
handle_speech_started_event ==
    /\ interrupted # None
    /\ rs' = SpeechState(rs)
    /\ truncSent' = truncSent \o SpeechMessages(rs)
    /\ interrupted' = None
    /\ UNCHANGED <<relayPc, aiCount, events>>
    /\ UNCHANGED <<storeVars, connVars, loopVars, talkVars, auxVars>>
    /\ UNCHANGED sendVars

\* ------------------------------------ CallHandler.handle_media_stream
\* websockets.connect(...) and initialize_session(...): "env_missing" is
\* require_env raising, "connect_failed" the connection failing,
\* "config_send_failed" the session.update send failing.
ConnectOutcomes == {"ok", "env_missing", "connect_failed", "config_send_failed"}

\* openai_ws after `async with websockets.connect(...)` is left: the context
\* manager closes a connection that is still open.
AiAfterHandlerExit(ai) == IF ai = "OPEN" THEN "closed_handler" ELSE ai

\* A handler that sends session.update a second time.
ConfigSendsTwice(outcome) == IF outcome = "ok" THEN 2 ELSE 0

\* session.update messages initialize_session has sent when the handler
\* goes on to start the coroutines ("ok") or is left by an exception.
ConfigSends(outcome) == IF outcome = "ok" THEN 1 ELSE 0

\* Twilio has connected to /twilio/stream/{task_id}; the endpoint accepts,
\* finds the session and calls the handler. On "ok" both coroutines are
\* started by asyncio.gather. On a failure the exception leaves the handler
\* and the endpoint's `except Exception` closes the websocket with 1011.
RelayConnect ==
    /\ relayPc = "idle"
    /\ CallPlaced
    /\ \E outcome \in ConnectOutcomes :
          /\ IF outcome = "ok"
             THEN /\ aiConn' = "OPEN"
                  /\ relayPc' = "running"
                  /\ inPc' = "run"
                  /\ outPc' = "run"
                  /\ UNCHANGED twConn
             ELSE /\ aiConn' = IF outcome = "config_send_failed"
                               THEN AiAfterHandlerExit("OPEN") ELSE "none"
                  /\ relayPc' = "aborted"
                  /\ twConn' = "closed"
                  /\ UNCHANGED <<inPc, outPc>>
          /\ configSent' = configSent + ConfigSends(outcome)
    /\ UNCHANGED <<rs, aiCount, events, appendMsg, mediaMsg>>
    /\ UNCHANGED <<storeVars, talkVars, auxVars>>
    /\ UNCHANGED speechVars

\* twilio_to_openai raised: gather raises at once, the handler is left
\* through the `async with`, the endpoint closes the websocket with 1011.
\* openai_to_twilio is not cancelled and goes on as a task.
RelayAbort ==
    /\ relayPc = "running"
    /\ inPc = "raised"
    /\ aiConn' = AiAfterHandlerExit(aiConn)
    /\ twConn' = "closed"
    /\ relayPc' = "aborted"
    /\ UNCHANGED <<rs, aiCount, events>>
    /\ UNCHANGED <<storeVars, loopVars, talkVars, auxVars>>
    /\ UNCHANGED speechVars
    /\ UNCHANGED sendVars

\* Both coroutines have returned: gather returns, websocket.close().
RelayJoin ==
    /\ relayPc = "running"
    /\ inPc = "done"
    /\ outPc = "done"
    /\ twConn' = "closed"
    /\ relayPc' = IF transcript # <<>> THEN "summarize" ELSE "persist"
    /\ UNCHANGED <<aiConn, rs, aiCount, events>>
    /\ UNCHANGED <<storeVars, loopVars, talkVars, auxVars>>
    /\ UNCHANGED speechVars
    /\ UNCHANGED sendVars

\* _generate_summary: the model's JSON, or the default it returns when the
\* request or json.loads raises.
GeneratedSummary ==
    [overview |-> "generated", painpoints |-> <<"p">>, highlights |-> <<"h">>,
     recommendations |-> <<"r">>, sentiment |-> "positive"]
ErrorSummary ==
    [overview |-> "Error generating summary", painpoints |-> <<>>,
     highlights |-> <<>>, recommendations |-> <<>>, sentiment |-> "unknown"]

FinSummarize ==
    /\ relayPc = "summarize"
    /\ \E s \in {GeneratedSummary, ErrorSummary} : summary' = Some(s)
    /\ relayPc' = "persist"
    /\ UNCHANGED <<rs, aiCount, events>>
    /\ UNCHANGED <<ackSent, deltaItem, graceElapsed, maxReached>>
    /\ UNCHANGED <<storeVars, connVars, loopVars, talkVars>>
    /\ UNCHANGED speechVars
    /\ UNCHANGED sendVars

\* A finalization that writes the status alone.
FinalRowStatusOnly(row, tr, sm) == [row EXCEPT !.status = COMPLETED]

\* A finalization that stores the summary and the status and drops the
\* transcript.
FinalRowSummaryOnly(row, tr, sm) ==
    [row EXCEPT !.summary = sm, !.status = COMPLETED]

\* A finalization that stores a summary whether or not there is a transcript.
FinalRowDefaultSummary(row, tr, sm) ==
    [row EXCEPT !.transcript = Some(tr),
                !.summary = IF sm = None THEN Some(ErrorSummary) ELSE sm,
                !.status = COMPLETED, !.completed_at = Some("now")]

\* A finalization that stamps completed_at without a transcript as well.
FinalRowStampsAlways(row, tr, sm) ==
    IF tr # <<>>
    THEN [row EXCEPT !.transcript = Some(tr), !.summary = sm,
                     !.status = COMPLETED, !.completed_at = Some("now")]
    ELSE [row EXCEPT !.status = COMPLETED, !.completed_at = Some("now")]

\* The row the finalization commits: with a transcript, the transcript, the
\* summary, COMPLETED and completed_at; without one, COMPLETED alone.
FinalRow(row, tr, sm) ==
    IF tr # <<>>
    THEN [row EXCEPT !.transcript = Some(tr), !.summary = sm,
                     !.status = COMPLETED, !.completed_at = Some("now")]
    ELSE [row EXCEPT !.status = COMPLETED]

\* select, assignments, commit; then the handler returns.
FinPersist ==
    /\ relayPc = "persist"
    /\ db' = FinalRow(db, transcript, summary)
    /\ relayPc' = "done"
    /\ aiConn' = AiAfterHandlerExit(aiConn)
    /\ UNCHANGED <<fcPc, cb, failReported, events>>
    /\ UNCHANGED <<twConn, rs, aiCount>>
    /\ UNCHANGED <<loopVars, talkVars, auxVars>>
    /\ UNCHANGED speechVars
    /\ UNCHANGED sendVars

\* The select or the commit raises. With a transcript the except branch
\* rolls back and the handler returns; without one nothing catches it and
\* the exception leaves the handler.
FinPersistFails ==
    /\ relayPc = "persist"
    /\ relayPc' = IF transcript # <<>> THEN "done_rollback" ELSE "aborted"
    /\ aiConn' = AiAfterHandlerExit(aiConn)
    /\ UNCHANGED <<twConn, rs, aiCount, events>>
    /\ UNCHANGED <<storeVars, loopVars, talkVars, auxVars>>
    /\ UNCHANGED speechVars
    /\ UNCHANGED sendVars

\* max_duration_in_secs seconds have passed since the relay started.
\* The attribute is assigned in __init__ and read nowhere: no step of the
\* program depends on it.
MaxDurationElapses ==
    /\ relayPc = "running"
    /\ ~maxReached
    /\ maxReached' = TRUE
    /\ UNCHANGED <<relayPc, rs, aiCount, events>>
    /\ UNCHANGED <<summary, ackSent, deltaItem, graceElapsed>>
    /\ UNCHANGED <<storeVars, connVars, loopVars, talkVars>>
    /\ UNCHANGED speechVars
    /\ UNCHANGED sendVars

handle_media_stream ==
    \/ RelayConnect
    \/ RelayAbort
    \/ RelayJoin
    \/ FinSummarize
    \/ FinPersist
    \/ FinPersistFails

\* The steps the program takes by itself, without a new message, a
\* disconnect or a failure from outside.
ProgramStep ==
    \/ FcBegin
    \/ FcPlace
    \/ FcStoreSid
    \/ InAppendSent
    \/ InSeeDisconnect
    \/ Tick
    \/ OutWake
    \/ OutDeltaSent
    \/ OutSeeClosed
    \/ RelayAbort
    \/ RelayJoin
    \/ FinSummarize
    \/ FinPersist

\* ---------------------------------------------------------------- Spec
Init ==
    /\ db = NewSession
    /\ fcPc = "start"
    /\ cb = NoCallback
    /\ failReported = FALSE
    /\ events = 0
    /\ relayPc = "idle"
    /\ aiConn = "none"
    /\ twConn = "open"
    /\ inPc = "idle"
    /\ outPc = "idle"
    /\ rs = NewRelayState
    /\ transcript = <<>>
    /\ summary = None
    /\ trEvents = <<>>
    /\ trCount = 0
    /\ aiCount = 0
    /\ ackSent = <<>>
    /\ deltaItem = None
    /\ graceElapsed = 0
    /\ maxReached = FALSE
    /\ interrupted = None
    /\ truncSent = <<>>
    /\ configSent = 0
    /\ appendMsg = None
    /\ mediaMsg = None

Next ==
    \/ handle_feedback_call
    \/ twilio_status_callback
    \/ handle_media_stream
    \/ twilio_to_openai
    \/ openai_to_twilio
    \/ TwilioDisconnects
    \/ AiDisconnects
    \/ MaxDurationElapses

Spec == Init /\ [][Next]_vars

\* -------------------------------------------------------- InterruptSpec
\* handle_speech_started_event as a function of the closure variables: the
\* relay is running, a speech_started event has arrived, and the handler is
\* applied once to each state of the closure variables drawn below.
\* response_start_timestamp_twilio and last_assistant_item are set together
\* (by the audio-delta branch), and the start timestamp is a media timestamp
\* that was the latest one at the time.
InterruptTimestamps == {0, 2000, 3000, 5000}
InterruptItemIds == {"item1", "item2"}
MarkQueues == {<<>>, <<"responsePart">>, <<"responsePart", "responsePart">>}
InterruptStates ==
    {r \in [stream_sid : {None} \cup {Some(x) : x \in StreamSids},
            latest_media_timestamp : InterruptTimestamps,
            last_assistant_item : {None} \cup {Some(i) : i \in InterruptItemIds},
            mark_queue : MarkQueues,
            response_start_timestamp_twilio :
                {None} \cup {Some(t) : t \in InterruptTimestamps},
            conversation_ended : {FALSE},
            end_call : {FALSE}] :
        /\ (r.response_start_timestamp_twilio = None) <=> (r.last_assistant_item = None)
        /\ r.response_start_timestamp_twilio # None
              => r.response_start_timestamp_twilio[1] <= r.latest_media_timestamp}

InterruptInit ==
    /\ db = [NewSession EXCEPT !.status = IN_PROGRESS, !.call_sid = Some("CA1")]
    /\ fcPc = "done"
    /\ cb = NoCallback
    /\ failReported = FALSE
    /\ events = 0
    /\ relayPc = "running"
    /\ aiConn = "OPEN"
    /\ twConn = "open"
    /\ inPc = "run"
    /\ outPc = "run"
    /\ rs \in InterruptStates
    /\ transcript = <<>>
    /\ summary = None
    /\ trEvents = <<>>
    /\ trCount = 0
    /\ aiCount = 0
    /\ ackSent = <<>>
    /\ deltaItem = None
    /\ graceElapsed = 0
    /\ maxReached = FALSE
    /\ interrupted \in {Some(i) : i \in InterruptItemIds}
    /\ rs.last_assistant_item \in {None, interrupted}
    /\ truncSent = <<>>
    /\ configSent = 0
    /\ appendMsg = None
    /\ mediaMsg = None

InterruptSpec == InterruptInit /\ [][handle_speech_started_event]_vars

\* --------------------------------------------------------- FinalizeSpec
\* The finalization of handle_media_stream run once more for a session an
\* earlier run has finalized: a later connection to /twilio/stream/{task_id}
\* for the same task_id whose relay gathered the same transcript. The stored
\* row is the one FinalRow left, stamped at an earlier time.
FinalizedTranscripts ==
    {<<[role |-> r, content |-> "a"]>> : r \in Roles}
    \cup {<<[role |-> r1, content |-> "a"], [role |-> r2, content |-> "a"]>> :
              r1 \in Roles, r2 \in Roles}

FinalizeInit ==
    /\ \E tr \in FinalizedTranscripts,
          sm \in {GeneratedSummary, ErrorSummary},
          d \in {None, Some(42)} :
          /\ db = [FinalRow([NewSession EXCEPT !.call_sid = Some("CA1"),
                                               !.duration_seconds = d],
                            tr, Some(sm))
                     EXCEPT !.completed_at = Some("earlier")]
          /\ transcript = tr
          /\ trEvents = tr
          /\ trCount = Len(tr)
          /\ aiCount = Len(tr)
    /\ fcPc = "done"
    /\ cb = NoCallback
    /\ failReported = FALSE
    /\ events = 0
    /\ relayPc = "summarize"
    /\ aiConn = "closed_peer"
    /\ twConn = "closed"
    /\ inPc = "done"
    /\ outPc = "done"
    /\ rs = NewRelayState
    /\ summary = None
    /\ ackSent = <<>>
    /\ deltaItem = None
    /\ graceElapsed = 0
    /\ maxReached = FALSE
    /\ interrupted = None
    /\ truncSent = <<>>
    /\ configSent = 0
    /\ appendMsg = None
    /\ mediaMsg = None

FinalizeNext ==
    \/ FinSummarize
    \/ FinPersist
    \/ FinPersistFails

FinalizeSpec == FinalizeInit /\ [][FinalizeNext]_vars

\* ============================================================ properties
\* The program has nothing left to do by itself: every further step needs a
\* message, a disconnect or a failure from outside.
Quiescent == ~ENABLED ProgramStep

CallFailedStatuses == {"failed", "busy", "no-answer"}

\* C1: once the stored status is Completed or Failed no step changes it.
C1_TerminalStatusIsFinal ==
    [][db.status \in Terminal => db'.status = db.status]_vars

\* A terminal status that a later write has replaced by the other one.
C1_Witness ==
    /\ cb.call_status \in CallFailedStatuses
    /\ cb.loaded_status = COMPLETED
    /\ db.status = FAILED

\* C2: a `completed` status callback handled while the stored status is
\* InProgress leaves the status Completed and the duration the reported one.
C2_CompletedCallbackCompletes ==
    [][(cb'.seq # cb.seq /\ cb'.call_status = "completed" /\ db.status = IN_PROGRESS)
         => (db'.status = COMPLETED
             /\ db'.duration_seconds = Some(ParseInt(cb'.call_duration)))]_vars

\* A `completed` callback has been handled on an InProgress session.
C2_Witness ==
    /\ cb.call_status = "completed"
    /\ cb.loaded_status = IN_PROGRESS
    /\ db.duration_seconds = Some(42)

\* C3: a failed, busy or no-answer status callback handled while the stored
\* status is InProgress leaves the status Failed and does not touch the
\* stored transcript and summary.
C3_FailedCallbackFails ==
    [][(cb'.seq # cb.seq /\ cb'.call_status \in CallFailedStatuses
        /\ db.status = IN_PROGRESS)
         => (db'.status = FAILED
             /\ db'.transcript = db.transcript
             /\ db'.summary = db.summary)]_vars

\* Such a callback has been handled on an InProgress session.
C3_Witness ==
    /\ cb.call_status \in CallFailedStatuses
    /\ cb.loaded_status = IN_PROGRESS
    /\ db.status = FAILED

\* C4: when the AI connection cannot be opened or the configuration message
\* cannot be sent, neither loop starts and the stored status is Failed.
C4_ConnectFailureMarksFailed ==
    (relayPc = "aborted" /\ inPc = "idle")
        => (outPc = "idle" /\ db.status = FAILED)

\* The handler has been left on a connection failure.
C4_Witness ==
    /\ relayPc = "aborted"
    /\ inPc = "idle"
    /\ aiConn = "closed_handler"

\* C5: telephony sends start, then media, then disconnects before any AI
\* message: once the program has nothing left to do the relay has returned,
\* both loops are over, and the session is Completed without transcript and
\* summary. (No failure callback, no malformed frame, no store failure.)
C5_Scenario ==
    /\ rs.stream_sid # None
    /\ rs.latest_media_timestamp > 0
    /\ twConn # "open"
    /\ aiCount = 0
    /\ inPc # "raised"
    /\ relayPc # "aborted"
    /\ ~failReported

C5_DisconnectBeforeAiEvents ==
    (C5_Scenario /\ Quiescent)
        => /\ relayPc = "done"
           /\ inPc = "done"
           /\ outPc = "done"
           /\ db.status = COMPLETED
           /\ db.transcript = None
           /\ db.summary = None

\* The scenario has happened and the inbound loop has ended.
C5_Witness ==
    /\ C5_Scenario
    /\ inPc = "done"
    /\ Quiescent

\* C6: the AI stream delivers a user transcription "a", an agent transcript
\* "a", the end_conversation function call and response.done, and nothing
\* else. The acknowledgment is sent and the grace interval is over before
\* openai_to_twilio closes the AI connection; it does close it; and when the
\* telephony stream has ended and the program has nothing left to do, the
\* session is Completed with the two entries [user, agent] and a summary.
\* (Telephony frames well-formed, no failure callback, no store failure.)
C6_Scenario ==
    /\ trEvents = <<[role |-> "user", content |-> "a"],
                    [role |-> "agent", content |-> "a"]>>
    /\ trCount = 2
    /\ aiCount = 4
    /\ rs.end_call
    /\ inPc # "raised"
    /\ relayPc # "done_rollback"
    /\ ~failReported

C6_EndConversation ==
    /\ (C6_Scenario /\ aiConn = "closed_out")
          => (ackSent \in {<<c>> : c \in CallIds} /\ graceElapsed >= GraceSecs)
    /\ (C6_Scenario /\ outPc = "done" /\ aiConn # "closed_peer")
          => aiConn = "closed_out"
    /\ (C6_Scenario /\ twConn # "open" /\ Quiescent)
          => /\ relayPc = "done"
             /\ db.status = COMPLETED
             /\ db.transcript = Some(<<[role |-> "user", content |-> "a"],
                                       [role |-> "agent", content |-> "a"]>>)
             /\ db.summary # None

\* The scenario has run to its end.
C6_Witness ==
    /\ C6_Scenario
    /\ aiConn = "closed_out"
    /\ relayPc = "done"
    /\ db.status = COMPLETED
    /\ db.summary = Some(GeneratedSummary)

\* C7 as stated: after N transcript events the transcript has N entries.
C7_OneEntryPerEvent == Len(transcript) = trCount

\* C7: the accumulated transcript holds one entry for every transcript
\* event whose text is not empty, in the order of arrival and with the role
\* of its event; an event with empty text adds nothing; and the transcript
\* the finalization stores is that list.
C7_OneEntryPerTextEvent ==
    /\ transcript = trEvents
    /\ Len(transcript) <= trCount
    /\ (relayPc = "done" /\ transcript # <<>>) => db.transcript = Some(trEvents)

\* Three transcript events, one of them empty; two entries of different
\* roles have been stored.
C7_Witness ==
    /\ trCount = 3
    /\ Len(transcript) = 2
    /\ transcript[1].role # transcript[2].role
    /\ relayPc = "done"
    /\ db.transcript = Some(transcript)

\* C8: after response.done has been handled with conversation_ended set,
\* neither openai_to_twilio nor twilio_to_openai closes the AI connection
\* before the 5 seconds of the grace interval are over.
C8_GraceBeforeClose ==
    (rs.end_call /\ aiConn \in {"closed_out", "closed_in"})
        => graceElapsed >= GraceSecs

\* The termination has closed the connection, and the inbound loop has
\* ended on end_call.
C8_Witness ==
    /\ rs.end_call
    /\ aiConn = "closed_out"
    /\ inPc = "done"

\* C9: once the telephony peer is gone the AI connection gets closed and
\* openai_to_twilio ends; once the AI peer is gone the telephony connection
\* gets closed and twilio_to_openai ends. Stated for the states in which the
\* program has nothing left to do without a further message.
C9_DisconnectStopsOtherLoop ==
    /\ (twConn = "peer_gone" /\ Quiescent)
          => (aiConn # "OPEN" /\ outPc = "done")
    /\ (aiConn = "closed_peer" /\ Quiescent)
          => (twConn = "closed" /\ inPc # "run")

\* The telephony peer is gone, the inbound loop has ended, nothing is left
\* to do.
C9_Witness ==
    /\ twConn = "peer_gone"
    /\ inPc = "done"
    /\ Quiescent

\* C10: when max_duration_in_secs have passed with the relay running, the
\* relay is terminated: once the program has nothing left to do, the relay
\* runs no longer, both connections are closed, and a relay that has
\* returned has left a terminal status.
C10_MaxDurationEnforced ==
    (maxReached /\ Quiescent)
        => /\ relayPc # "running"
           /\ aiConn # "OPEN"
           /\ twConn = "closed"
           /\ (relayPc = "done" => db.status \in Terminal)

\* The maximum duration has passed and the relay is still running.
C10_Witness ==
    /\ maxReached
    /\ relayPc = "running"
    /\ Quiescent

\* C11: a malformed message on either stream is skipped: the loop that
\* received it goes on. A telephony message never ends twilio_to_openai by an
\* exception, and an AI message received while telephony is connected (so
\* that forwarding cannot fail) never ends openai_to_twilio.
C11_MalformedSkipped ==
    [][/\ (inPc = "run" => inPc' # "raised")
       /\ (outPc = "run" /\ aiCount' = aiCount + 1 /\ twConn = "open")
             => outPc' # "done"]_vars

\* A malformed telephony frame has ended the inbound loop and the handler.
C11_Witness ==
    /\ inPc = "raised"
    /\ relayPc = "aborted"
    /\ aiConn = "closed_handler"

\* C12: when a stream has dropped or a loop has failed after transcript
\* entries were accumulated, the finalization runs and stores them: once
\* the program has nothing left to do, the handler has returned and the
\* stored transcript is the accumulated one. (No store failure.)
C12_PartialTranscriptPersisted ==
    (/\ transcript # <<>>
     /\ inPc = "raised" \/ twConn = "peer_gone" \/ aiConn = "closed_peer"
     /\ relayPc # "done_rollback"
     /\ Quiescent)
        => (relayPc = "done" /\ db.transcript = Some(transcript))

\* The inbound loop failed with entries accumulated; nothing was stored.
C12_Witness ==
    /\ transcript # <<>>
    /\ inPc = "raised"
    /\ relayPc = "aborted"
    /\ db.transcript = None
    /\ Quiescent

\* C13: when the summarizer has failed on a non-empty transcript, the
\* summary the finalization holds is the default one, and the commit stores
\* the whole transcript, that default summary and the status Completed.
C13_SummaryFailureDefault ==
    [][(relayPc = "persist" /\ relayPc' = "done" /\ summary # Some(GeneratedSummary)
        /\ transcript # <<>>)
         => /\ db'.transcript = Some(trEvents)
            /\ db'.summary = Some([overview |-> "Error generating summary",
                                   painpoints |-> <<>>, highlights |-> <<>>,
                                   recommendations |-> <<>>,
                                   sentiment |-> "unknown"])
            /\ db'.status = COMPLETED]_vars

\* A two-entry transcript stored with the default summary.
C13_Witness ==
    /\ relayPc = "done"
    /\ summary = Some(ErrorSummary)
    /\ db.summary = Some(ErrorSummary)
    /\ db.transcript = Some(transcript)
    /\ Len(transcript) = 2
    /\ db.status = COMPLETED

\* C14: when both loops have ended with an empty transcript the summarizer
\* step is skipped, and the commit leaves the stored summary unset and the
\* status Completed.
C14_EmptyTranscriptNoSummary ==
    [][/\ (relayPc = "running" /\ relayPc' \notin {"running", "aborted"}
           /\ transcript = <<>>) => relayPc' = "persist"
       /\ (relayPc = "persist" /\ relayPc' = "done" /\ transcript = <<>>)
             => /\ summary = None
                /\ db'.summary = None
                /\ db'.status = COMPLETED]_vars

\* A relay that ended without transcript has been finalized.
C14_Witness ==
    /\ relayPc = "done"
    /\ transcript = <<>>
    /\ trCount > 0
    /\ db.status = COMPLETED
    /\ db.summary = None

\* C15: the finalization run on a session that is already summarized, with
\* the transcript it has stored, changes nothing in the stored row.
C15_SecondFinalizationNoOp ==
    [][(relayPc = "persist" /\ relayPc' = "done" /\ db.summary # None
        /\ db.transcript = Some(transcript))
         => db' = db]_vars

\* The second finalization has committed a summary other than the first.
C15_Witness ==
    /\ relayPc = "done"
    /\ db.summary = Some(ErrorSummary)
    /\ db.completed_at = Some("now")
    /\ Len(transcript) = 2

\* C16: when the store write of the finalization raises, the exception is
\* caught inside the handler, nothing is written and the handler returns
\* normally, with a transcript and without one.
C16_StoreFailureCaught ==
    [][(relayPc = "persist" /\ relayPc' \notin {"persist", "done"})
         => (relayPc' = "done_rollback" /\ db' = db)]_vars

\* The status write of an empty-transcript relay failed and the exception
\* left the handler.
C16_Witness ==
    /\ relayPc = "aborted"
    /\ inPc = "done"
    /\ outPc = "done"
    /\ transcript = <<>>

\* C17: after a speech_started event has arrived while a response was in
\* flight, no further audio delta of that response is forwarded to
\* telephony before the interruption handler has run.
C17_InterruptBeforeMoreAudio ==
    ~(outPc = "delta_sent" /\ interrupted # None /\ deltaItem = interrupted)

\* A speech_started event has arrived during a response and the handler
\* has not run.
C17_Witness ==
    /\ interrupted # None
    /\ interrupted = rs.last_assistant_item
    /\ truncSent = <<>>

\* C18: the interruption handler, run with mark_queue non-empty and
\* response_start_timestamp_twilio set, sends a truncate for
\* last_assistant_item at latest_media_timestamp minus
\* response_start_timestamp_twilio (2000 for 5000 and 3000), then one clear
\* for stream_sid, and leaves mark_queue empty and last_assistant_item and
\* response_start_timestamp_twilio unset; run with the guard false it sends
\* nothing and changes nothing.
C18_InterruptionHandler ==
    [][(interrupted # None /\ interrupted' = None)
         => IF rs.mark_queue # <<>> /\ rs.response_start_timestamp_twilio # None
            THEN /\ Len(truncSent') = 2
                 /\ truncSent'[1].type = "conversation.item.truncate"
                 /\ truncSent'[1].item_id = rs.last_assistant_item
                 /\ truncSent'[1].audio_end_ms + rs.response_start_timestamp_twilio[1]
                       = rs.latest_media_timestamp
                 /\ (rs.latest_media_timestamp = 5000
                     /\ rs.response_start_timestamp_twilio = Some(3000))
                       => truncSent'[1].audio_end_ms = 2000
                 /\ truncSent'[2].type = "clear"
                 /\ truncSent'[2].stream = rs.stream_sid
                 /\ rs' = [rs EXCEPT !.mark_queue = <<>>,
                                     !.last_assistant_item = None,
                                     !.response_start_timestamp_twilio = None]
            ELSE /\ truncSent' = truncSent
                 /\ rs' = rs]_vars

\* The handler has run on 5000 and 3000 and sent the truncate at 2000.
C18_Witness ==
    /\ interrupted = None
    /\ rs.latest_media_timestamp = 5000
    /\ Len(truncSent) = 2
    /\ truncSent[1].audio_end_ms = 2000
    /\ rs.mark_queue = <<>>
    /\ rs.response_start_timestamp_twilio = None

\* C19: no step replaces a stored Completed or Failed by Pending or
\* InProgress.
C19_NoTerminalToNonTerminal ==
    [][db.status \in Terminal => db'.status \in Terminal]_vars

\* A failure callback and the finalization have both written the status.
C19_Witness ==
    /\ failReported
    /\ relayPc = "done"
    /\ db.status = COMPLETED

C21_PlacementOutcome ==
    [][/\ fcPc' = "failed" => (db'.status = FAILED /\ db'.call_sid = None)
       /\ (fcPc # "placed" /\ fcPc' = "placed")
             => (db'.status = IN_PROGRESS /\ db'.call_sid = None)
       /\ fcPc' = "done" => db'.call_sid # None
       /\ (db.call_sid = None /\ db'.call_sid # None)
             => (fcPc = "placed" /\ fcPc' = "done")
       /\ db.call_sid # None => db'.call_sid = db.call_sid]_vars

\* The call was placed, its id stored, and the relay has run to its end
\* with the id still there.
C21_Witness ==
    /\ fcPc = "done"
    /\ db.call_sid = Some("CA1")
    /\ relayPc = "done"

\* C22: a relay sends session.update once, while neither coroutine has
\* started; both coroutines run only with it sent, and every
\* input_audio_buffer.append goes out after it.
C22_ConfigFirst ==
    [][/\ configSent' <= 1
       /\ (inPc' # "idle" \/ outPc' # "idle") => configSent' = 1
       /\ configSent' # configSent => (inPc = "idle" /\ outPc = "idle")
       /\ appendMsg' # None => configSent = 1]_vars

\* An append is on its way to the AI connection.
C22_Witness ==
    /\ appendMsg # None
    /\ inPc = "append_sent"
    /\ configSent = 1

\* C23: the termination sequence (end_call set, the 5 s sleep, the close)
\* starts only in openai_to_twilio's handling of a response.done with
\* conversation_ended set, and at most once in a relay; a response.done
\* with conversation_ended unset changes neither the shared variables nor
\* the connections and leaves the loop receiving.
C23_TerminationOnce ==
    [][/\ (outPc # "sleep" /\ outPc' = "sleep")
             => (OutResponseDone /\ rs.conversation_ended /\ ~rs.end_call)
       /\ (~rs.end_call /\ rs'.end_call)
             => (outPc = "run" /\ outPc' = "sleep")
       /\ rs.end_call => rs'.end_call
       /\ (OutResponseDone /\ ~rs.conversation_ended)
             => (rs' = rs /\ outPc' = "run" /\ aiConn' = aiConn
                 /\ twConn' = twConn)]_vars

\* The termination sequence has run to its end.
C23_Witness ==
    /\ rs.end_call
    /\ rs.conversation_ended
    /\ outPc = "done"
    /\ aiConn = "closed_out"

\* C24: handling response.function_call_arguments.done for end_conversation
\* sets conversation_ended and sends one function_call_output with the
\* event's call_id, on an AI connection that is open and that the
\* termination sequence has not yet begun to close; for any other function
\* name the shared variables and the acknowledgments sent stay as they are.
\* No other step sends an acknowledgment.
C24_EndConversationAck ==
    [][/\ \A name \in FunctionNames, call_id \in CallIds :
             OutFunctionCallOf(name, call_id)
                => IF name = "end_conversation"
                   THEN /\ rs'.conversation_ended
                        /\ ackSent' = Append(ackSent, call_id)
                        /\ aiConn = "OPEN" /\ aiConn' = "OPEN"
                        /\ ~rs'.end_call
                   ELSE rs' = rs /\ ackSent' = ackSent
       /\ ackSent' # ackSent => OutFunctionCall
       /\ aiConn' = "closed_out" => ackSent' # <<>>]_vars

\* end_conversation was called twice, with call ids 1 and 2; both were
\* acknowledged in order and the termination has closed the connection.
C24_Witness ==
    /\ ackSent = <<1, 2>>
    /\ rs.conversation_ended
    /\ aiConn = "closed_out"

\* C25: whenever twilio_to_openai ends, on the telephony disconnect or on
\* seeing end_call, the AI connection is not open afterwards.
C25_InboundExitClosesAi ==
    [][(inPc = "run" /\ inPc' = "done") => aiConn' # "OPEN"]_vars

\* The inbound loop has ended on the telephony disconnect.
C25_Witness ==
    /\ inPc = "done"
    /\ twConn = "peer_gone"
    /\ ~rs.end_call

\* C26: in every state of the relay response_start_timestamp_twilio is set
\* exactly when last_assistant_item is set.
\* The interruption handler, run in such a state with any queue of marks,
\* keeps it so.
C26_StartStampIffItem ==
    /\ (rs.response_start_timestamp_twilio # None) <=> (rs.last_assistant_item # None)
    /\ \A q \in MarkQueues :
          LET r == SpeechState([rs EXCEPT !.mark_queue = q])
          IN  (r.response_start_timestamp_twilio # None)
                 <=> (r.last_assistant_item # None)

\* A response is in progress: both are set, the stamp from a media packet.
C26_Witness ==
    /\ rs.last_assistant_item = Some("item1")
    /\ rs.response_start_timestamp_twilio = Some(3000)

\* C27: handling a media message sets latest_media_timestamp to the
\* message's timestamp whatever the state of the AI connection, and sends
\* the payload as it came in one input_audio_buffer.append when the AI
\* connection is open and sends nothing when it is not.
C27_MediaAlwaysStamps ==
    [][\A e \in TwilioEvents :
          (InReceiveOf(e) /\ e.event = "media" /\ ~rs.end_call)
             => /\ rs'.latest_media_timestamp = ParseInt(e.timestamp)
                /\ appendMsg' = IF aiConn = "OPEN"
                                THEN Some([type |-> "input_audio_buffer.append",
                                           audio |-> e.payload])
                                ELSE None]_vars

\* A media packet was handled with the AI connection open: the timestamp
\* is stored and the append with the packet's payload is on its way.
C27_Witness ==
    /\ inPc = "append_sent"
    /\ rs.latest_media_timestamp = 3000
    /\ appendMsg = Some([type |-> "input_audio_buffer.append", audio |-> "f39/"])

\* C28 (as stated): every audio delta handled is sent to Twilio as one media
\* event with the delta's payload and the current stream_sid; after the
\* send a new item_id sets response_start_timestamp_twilio to
\* latest_media_timestamp and last_assistant_item to the item, and the same
\* item_id changes nothing.
C28_DeltaForwardedSame ==
    [][/\ \A item \in ItemIds, delta \in AudioDeltas, sent \in BOOLEAN :
             OutAudioDeltaOf(item, delta, sent)
                => mediaMsg' = Some([event |-> "media",
                                     streamSid |-> rs.stream_sid,
                                     payload |-> delta])
       /\ OutDeltaSent
             => rs' = IF deltaItem # rs.last_assistant_item
                      THEN [rs EXCEPT !.response_start_timestamp_twilio =
                                           Some(rs.latest_media_timestamp),
                                      !.last_assistant_item = deltaItem]
                      ELSE rs]_vars

\* C28 (amended): an audio delta that decodes as base64, handled while the
\* telephony socket is open, is sent as one media event under the current
\* stream_sid whose payload is canonical base64 for the bytes of the delta;
\* a delta that does not decode sends nothing and ends the loop; with the
\* telephony peer gone the loop either ends or goes on as after a send.
\* After the send a new item_id sets response_start_timestamp_twilio to
\* latest_media_timestamp and last_assistant_item to the item, and the same
\* item_id changes nothing.
C28_DeltaForwardedRecoded ==
    [][/\ \A item \in ItemIds, delta \in AudioDeltas, sent \in BOOLEAN :
             OutAudioDeltaOf(item, delta, sent)
                => IF B64Decode(delta) = None
                   THEN mediaMsg' = None /\ outPc' = "done"
                   ELSE IF twConn = "open" \/ sent
                   THEN /\ outPc' = "delta_sent"
                        /\ mediaMsg' # None
                        /\ mediaMsg'[1].event = "media"
                        /\ mediaMsg'[1].streamSid = rs.stream_sid
                        /\ B64Decode(mediaMsg'[1].payload) = B64Decode(delta)
                        /\ B64Encode(B64Decode(delta)[1]) = mediaMsg'[1].payload
                   ELSE mediaMsg' = None /\ outPc' = "done"
       /\ OutDeltaSent
             => /\ rs' = IF deltaItem # rs.last_assistant_item
                         THEN [rs EXCEPT !.response_start_timestamp_twilio =
                                              Some(rs.latest_media_timestamp),
                                         !.last_assistant_item = deltaItem]
                         ELSE rs
                /\ mediaMsg' = None]_vars

\* A delta is on its way to Twilio under the stream id of the start event.
C28_Witness ==
    /\ outPc = "delta_sent"
    /\ mediaMsg = Some([event |-> "media", streamSid |-> Some("ST1"),
                        payload |-> "QUJD"])
    /\ deltaItem = Some("item1")

\* C29: once the handler is past asyncio.gather (it closes the telephony
\* socket, summarizes, persists, has returned or has raised), neither
\* coroutine is still running.
C29_JoinedBeforeFinish ==
    relayPc \in {"summarize", "persist", "done", "done_rollback", "aborted"}
       => (inPc \in {"idle", "done", "raised"} /\ outPc \in {"idle", "done"})

\* Both coroutines ended without an error and the handler went on behind
\* the gather.
C29_Witness ==
    /\ relayPc = "summarize"
    /\ inPc = "done"
    /\ outPc = "done"

\* C30: mark_queue is empty in every state of the relay; so a mark message
\* from Twilio leaves the shared variables as they are, and the guard of
\* handle_speech_started_event is false.
C30_NoPendingMarks ==
    /\ rs.mark_queue = <<>>
    /\ ~SpeechGuard(rs)
    /\ \A e \in TwilioEvents :
          e.event = "mark" => InboundState(rs, e, aiConn) = rs

\* Audio of a response has been sent to Twilio after a start event, the
\* place where a mark would have been queued, and the queue is empty.
C30_Witness ==
    /\ rs.stream_sid # None
    /\ rs.last_assistant_item # None
    /\ rs.response_start_timestamp_twilio # None
    /\ rs.mark_queue = <<>>
    /\ outPc = "run"

\* C31: in every state the stored summary is set exactly when the stored
\* transcript is set and not empty; and completed_at is set only when the
\* finalization has committed, with a transcript that is not empty, the row
\* that also carries that transcript and its summary.
C31_SummaryIffTranscript ==
    /\ (db.summary # None) <=> (db.transcript # None /\ db.transcript # Some(<<>>))
    /\ db.completed_at # None
          => /\ relayPc = "done"
             /\ transcript # <<>>
             /\ db.transcript = Some(transcript)
             /\ db.summary = summary

\* The finalization has stored transcript, summary and completed_at, and a
\* failure callback handled afterwards has replaced the status.
C31_Witness ==
    /\ db.completed_at # None
    /\ db.summary # None
    /\ db.transcript # None
    /\ db.status = FAILED
    /\ fcPc = "done"

====
